---- MODULE Spec2Model ----
\* Orange-HR assistant (NKASG/HRRAG): the retrieval-augmented query pipeline of
\* rag_backend.py (MasterHRPipeline) and the message handling of app.py
\* (generate_answer, POST /webhook).
\*
\* Text is a sequence of one-character strings, so that lower(), strip(),
\* startswith() and the substring test `in` are computed, not assumed.  The
\* characters outside ASCII are written as one token each: "<wave>", "<smile>",
\* "<rsquo>" (U+2019) and "<nbhyphen>" (U+2011).
EXTENDS Integers, Sequences, FiniteSets, TLC

VARIABLES
    up,                 \* TRUE while a process holds a constructed hr_bot
    index,              \* the persistent Chroma collection "hr_documents"
    history,            \* hr_bot.history
    call,               \* what the most recent operation did and returned
    processed_messages, \* app.processed_messages
    handlers,           \* the in-flight POST /webhook requests
    generated,          \* per message id: calls of generate_answer by the webhook
    sent                \* per message id: calls of send_whatsapp_message

vars == <<up, index, history, call, processed_messages, handlers, generated, sent>>

----------------------------------------------------------------------------
\* Bounds of the model.

\* longest inbound text enumerated for the intent classifier
MaxLen == 4
\* most Conversation Records a process accumulates before the model stops querying
MaxHistory == 2
\* number of POST /webhook requests in flight or completed
MaxHandlers == 3

----------------------------------------------------------------------------
\* Python str operations.

Whitespace == {" ", "\t", "\n", "\r"}

UpperCase ==
    <<"A","B","C","D","E","F","G","H","I","J","K","L","M",
      "N","O","P","Q","R","S","T","U","V","W","X","Y","Z">>

LowerCase ==
    <<"a","b","c","d","e","f","g","h","i","j","k","l","m",
      "n","o","p","q","r","s","t","u","v","w","x","y","z">>

IsUpper(c) == \E i \in 1..26 : UpperCase[i] = c

IsLower(c) == \E i \in 1..26 : LowerCase[i] = c

\* the class [A-Za-z]
IsLetter(c) == IsUpper(c) \/ IsLower(c)

IsSpace(c) == c \in Whitespace

LowerChar(c) ==
    IF IsUpper(c) THEN LowerCase[CHOOSE i \in 1..26 : UpperCase[i] = c] ELSE c

UpperChar(c) ==
    IF IsLower(c) THEN UpperCase[CHOOSE i \in 1..26 : LowerCase[i] = c] ELSE c

\* str.lower()
Lower(s) == [i \in 1..Len(s) |-> LowerChar(s[i])]

\* str.capitalize()
Capitalize(s) ==
    [i \in 1..Len(s) |-> IF i = 1 THEN UpperChar(s[i]) ELSE LowerChar(s[i])]

\* str.strip()
Strip(s) ==
    LET keep == {i \in 1..Len(s) : ~IsSpace(s[i])}
    IN  IF keep = {} THEN <<>>
        ELSE LET a == CHOOSE i \in keep : \A j \in keep : i <= j
                 b == CHOOSE i \in keep : \A j \in keep : j <= i
             IN  SubSeq(s, a, b)

\* str.startswith(p)
StartsWith(s, p) == Len(p) <= Len(s) /\ SubSeq(s, 1, Len(p)) = p

\* the substring test `p in s`
Contains(s, p) ==
    \E i \in 1..(Len(s) - Len(p) + 1) : SubSeq(s, i, i + Len(p) - 1) = p

\* true when p occurs in s starting at position i
OccursAt(s, p, i) ==
    i + Len(p) - 1 <= Len(s) /\ SubSeq(s, i, i + Len(p) - 1) = p

\* regex \s+ from position j: the first position at or after j that holds no
\* whitespace, or Len(s)+1
SpaceRunEnd(s, j) ==
    CHOOSE e \in j..(Len(s) + 1) :
        /\ \A i \in j..(e - 1) : IsSpace(s[i])
        /\ e = Len(s) + 1 \/ ~IsSpace(s[e])

\* regex [A-Za-z]+ from position j: the first position at or after j that holds
\* no letter, or Len(s)+1
LetterRunEnd(s, j) ==
    CHOOSE e \in j..(Len(s) + 1) :
        /\ \A i \in j..(e - 1) : IsLetter(s[i])
        /\ e = Len(s) + 1 \/ ~IsLetter(s[e])

\* sep.join(parts)
RECURSIVE Join(_, _)
Join(parts, sep) ==
    IF parts = <<>> THEN <<>>
    ELSE IF Len(parts) = 1 THEN parts[1]
    ELSE parts[1] \o sep \o Join(Tail(parts), sep)

----------------------------------------------------------------------------
\* Fixed texts of the program.

HR_KEYWORDS ==
    { <<"l","e","a","v","e">>, <<"c","a","s","u","a","l"," ","l","e","a","v","e">>,
      <<"s","i","c","k"," ","l","e","a","v","e">>,
      <<"a","n","n","u","a","l"," ","l","e","a","v","e">>,
      <<"v","a","c","a","t","i","o","n">>, <<"h","o","l","i","d","a","y">>,
      <<"m","a","t","e","r","n","i","t","y">>, <<"p","a","t","e","r","n","i","t","y">>,
      <<"c","o","m","p","a","s","s","i","o","n","a","t","e"," ","l","e","a","v","e">>,
      <<"a","b","s","e","n","c","e">>, <<"s","a","l","a","r","y">>, <<"p","a","y">>,
      <<"w","a","g","e">>, <<"p","a","y","m","e","n","t">>,
      <<"p","a","y","r","o","l","l">>, <<"a","l","l","o","w","a","n","c","e">>,
      <<"b","o","n","u","s">>, <<"d","e","d","u","c","t","i","o","n">>,
      <<"s","t","i","p","e","n","d">>, <<"c","o","m","p","e","n","s","a","t","i","o","n">>,
      <<"e","a","r","n","i","n","g","s">>, <<"p","o","l","i","c","y">>,
      <<"h","a","n","d","b","o","o","k">>, <<"g","u","i","d","e","l","i","n","e">>,
      <<"c","o","d","e"," ","o","f"," ","c","o","n","d","u","c","t">>,
      <<"r","u","l","e","s">>, <<"o","n","b","o","a","r","d","i","n","g">>,
      <<"h","i","r","i","n","g">>, <<"r","e","c","r","u","i","t","m","e","n","t">>,
      <<"j","o","b"," ","o","f","f","e","r">>, <<"p","r","o","b","a","t","i","o","n">>,
      <<"o","r","i","e","n","t","a","t","i","o","n">>,
      <<"i","n","d","u","c","t","i","o","n">>, <<"e","m","p","l","o","y","m","e","n","t">>,
      <<"h","r">>, <<"h","u","m","a","n"," ","r","e","s","o","u","r","c","e">>,
      <<"e","m","p","l","o","y","e","e">>, <<"s","t","a","f","f">>,
      <<"r","e","l","a","t","i","o","n","s">>, <<"t","e","a","m">>,
      <<"s","u","p","e","r","v","i","s","o","r">>, <<"m","a","n","a","g","e","r">>,
      <<"p","e","r","f","o","r","m","a","n","c","e">>, <<"r","e","v","i","e","w">>,
      <<"k","p","i">>, <<"e","v","a","l","u","a","t","i","o","n">>,
      <<"a","p","p","r","a","i","s","a","l">>, <<"p","r","o","m","o","t","i","o","n">>,
      <<"r","a","t","i","n","g">>, <<"b","e","n","e","f","i","t">>,
      <<"i","n","s","u","r","a","n","c","e">>, <<"m","e","d","i","c","a","l">>,
      <<"h","e","a","l","t","h">>, <<"r","e","t","i","r","e","m","e","n","t">>,
      <<"p","e","n","s","i","o","n">>, <<"g","r","a","t","u","i","t","y">>,
      <<"d","i","s","c","i","p","l","i","n","e">>, <<"w","a","r","n","i","n","g">>,
      <<"h","a","r","a","s","s","m","e","n","t">>, <<"c","o","m","p","l","a","i","n","t">>,
      <<"g","r","i","e","v","a","n","c","e">>,
      <<"t","e","r","m","i","n","a","t","i","o","n">>, <<"e","x","i","t">>,
      <<"r","e","s","i","g","n","a","t","i","o","n">>,
      <<"d","i","s","m","i","s","s","a","l">>, <<"w","o","r","k"," ","h","o","u","r","s">>,
      <<"a","t","t","e","n","d","a","n","c","e">>, <<"s","h","i","f","t">>,
      <<"o","v","e","r","t","i","m","e">>, <<"l","a","t","e","n","e","s","s">>,
      <<"t","r","a","i","n","i","n","g">>, <<"d","e","v","e","l","o","p","m","e","n","t">>,
      <<"l","e","a","r","n","i","n","g">>, <<"w","o","r","k","s","h","o","p">>,
      <<"c","o","u","r","s","e">>, <<"l","o","a","n">>,
      <<"s","a","l","a","r","y"," ","a","d","v","a","n","c","e">>,
      <<"s","a","f","e","t","y">>,
      <<"w","o","r","k","p","l","a","c","e"," ","s","a","f","e","t","y">>,
      <<"s","e","c","u","r","i","t","y">> }

ESCALATION ==
    <<"P","l","e","a","s","e"," ","k","i","n","d","l","y"," ","v","i","s","i","t"," ","L",
      "o","u","i","s","a"," ","a","t"," ","t","h","e"," ","H","R"," ","o","f","f","i","c",
      "e"," ","f","o","r"," ","p","r","o","p","e","r"," ","a","s","s","i","s","t","a","n",
      "c","e",".">>

UNAVAILABLE ==
    <<"H","R"," ","s","y","s","t","e","m"," ","u","n","a","v","a","i","l","a","b","l","e",
      "."," ","P","l","e","a","s","e"," ","t","r","y"," ","a","g","a","i","n",".">>

REFUSAL ==
    <<"I"," ","c","a","n"," ","o","n","l","y"," ","a","s","s","i","s","t"," ","w","i","t",
      "h"," ","H","R","-","r","e","l","a","t","e","d"," ","q","u","e","s","t","i","o","n",
      "s",".">>

WELCOME ==
    <<"Y","o","u","'","r","e"," ","w","e","l","c","o","m","e"," ","<smile>"," ","L","e","t",
      " ","m","e"," ","k","n","o","w"," ","i","f"," ","y","o","u"," ","n","e","e","d"," ",
      "a","n","y"," ","h","e","l","p",".">>

ELABORATE ==
    <<"H","i"," ","<wave>"," ","P","l","e","a","s","e"," ","t","y","p","e"," ","a"," ","f",
      "u","l","l"," ","q","u","e","s","t","i","o","n"," ","s","o"," ","I"," ","c","a","n",
      " ","a","s","s","i","s","t"," ","y","o","u",".">>

GOOD_MORNING ==
    <<"G","o","o","d"," ","m","o","r","n","i","n","g">>

GOOD_AFTERNOON ==
    <<"G","o","o","d"," ","a","f","t","e","r","n","o","o","n">>

GOOD_EVENING ==
    <<"G","o","o","d"," ","e","v","e","n","i","n","g">>

GREET_WAVE ==
    <<" ","<wave>","\n","\n">>

GREET_INTRO ==
    <<"I","<rsquo>","m"," ","O","r","a","n","g","e","<nbhyphen>","H","R",","," ","y","o",
      "u","r"," ","H","R"," ","A","I"," ","A","s","s","i","s","t","a","n","t">>

GREET_TAIL ==
    <<".","\n","I"," ","c","a","n"," ","a","s","s","i","s","t"," ","w","i","t","h"," ","l",
      "e","a","v","e",","," ","s","a","l","a","r","y"," ","p","o","l","i","c","y",","," ",
      "b","e","n","e","f","i","t","s"," ","a","n","d"," ","o","n","b","o","a","r","d","i",
      "n","g",".","\n","\n","H","o","w"," ","c","a","n"," ","I"," ","h","e","l","p"," ","y",
      "o","u"," ","t","o","d","a","y","?">>

greetings ==
    << <<"h","i">>, <<"h","e","l","l","o">>, <<"h","e","y">>,
      <<"g","o","o","d"," ","m","o","r","n","i","n","g">>,
      <<"g","o","o","d"," ","a","f","t","e","r","n","o","o","n">>,
      <<"g","o","o","d"," ","e","v","e","n","i","n","g">> >>

closing_words ==
    << <<"b","y","e">>, <<"g","o","o","d","b","y","e">>, <<"t","h","a","n","k","s">>,
      <<"t","h","a","n","k"," ","y","o","u">>, <<"o","k">>, <<"o","k","a","y">> >>

name_triggers ==
    << <<"i"," ","a","m">>, <<"i","'","m">>, <<"m","y"," ","n","a","m","e"," ","i","s">>,
      <<"t","h","i","s"," ","i","s">> >>

----------------------------------------------------------------------------
\* Intent classifier: app.py generate_answer.

\* re.search(r"(i am|i'm|my name is|this is)\s+([A-Za-z]+)", s): for a match that
\* begins at position i, the position where group 2 begins; 0 when none does
NameStartAt(s, i) ==
    LET after == {i + Len(name_triggers[k]) :
                    k \in {n \in 1..Len(name_triggers) : OccursAt(s, name_triggers[n], i)}}
        ok == {j \in after :
                 LET e == SpaceRunEnd(s, j)
                 IN  e > j /\ e <= Len(s) /\ IsLetter(s[e])}
    IN  IF ok = {} THEN 0 ELSE SpaceRunEnd(s, CHOOSE j \in ok : TRUE)

\* name_match.group(2).capitalize() if name_match else None (None is <<>>)
user_name(clean_text) ==
    LET hits == {i \in 1..Len(clean_text) : NameStartAt(clean_text, i) # 0}
    IN  IF hits = {} THEN <<>>
        ELSE LET i == CHOOSE x \in hits : \A y \in hits : x <= y
                 b == NameStartAt(clean_text, i)
             IN  Capitalize(SubSeq(clean_text, b, LetterRunEnd(clean_text, b) - 1))

time_greeting(hour) ==
    IF hour < 12 THEN GOOD_MORNING
    ELSE IF hour < 17 THEN GOOD_AFTERNOON
    ELSE GOOD_EVENING

\* user_text.lower().strip()
clean(user_text) == Strip(Lower(user_text))

is_greeting(clean_text) ==
    \E k \in 1..Len(greetings) : StartsWith(clean_text, greetings[k])

is_closing(clean_text) ==
    \E k \in 1..Len(closing_words) : Contains(clean_text, closing_words[k])

\* the length test with `<` for `<=`
is_short_strict(clean_text) == Len(clean_text) < 2

is_short(clean_text) == Len(clean_text) <= 2

\* the closing test placed before the greeting test
intent_closing_first(clean_text) ==
    IF is_closing(clean_text) THEN "closing"
    ELSE IF is_greeting(clean_text) THEN "greeting"
    ELSE IF is_short(clean_text) THEN "short"
    ELSE "query"

\* the branch of generate_answer that returns
intent(clean_text) ==
    IF is_greeting(clean_text) THEN "greeting"
    ELSE IF is_closing(clean_text) THEN "closing"
    ELSE IF is_short(clean_text) THEN "short"
    ELSE "query"

greeting_reply(hour, name) ==
    time_greeting(hour) \o GREET_WAVE \o GREET_INTRO
        \o (IF name # <<>> THEN <<",", " ">> \o name ELSE <<>>) \o GREET_TAIL

----------------------------------------------------------------------------
\* Collaborators of the pipeline: document source, Embedder, Vector Index,
\* Language Model.  Their outcomes are inputs of the operations.

\* relevance threshold 1.5, in tenths
THRESHOLD == 15

\* query(self, question, top_k=3)
DEFAULT_TOP_K == 3

\* distances the index may report, in tenths: below, at and above the threshold
Distances == {10, 15, 20}

TopKs == {1, DEFAULT_TOP_K}

Min(a, b) == IF a <= b THEN a ELSE b

\* a PDF the loader reads: one Document per page, metadata source = the path given
\* to the loader, page = the page index; `chunks` is what the splitter makes of the
\* page's text (page indices are written as digit strings, so that
\* they compare with the "N/A" default)
PolicyPdf ==
    [path |-> "./data/hr/policy.pdf", name |-> "policy.pdf", ok |-> TRUE,
     docs |-> << [metadata |-> [source |-> "./data/hr/policy.pdf", page |-> "0"],
                  chunks |-> << <<"A">> >>],
                 [metadata |-> [source |-> "./data/hr/policy.pdf", page |-> "1"],
                  chunks |-> << <<"B">> >>] >>]

\* a PDF on which loader.load() raises
ScanPdf ==
    [path |-> "./data/scan.pdf", name |-> "scan.pdf", ok |-> FALSE, docs |-> <<>>]

\* contents of data_dir, as lists of the files glob("**/*.pdf") yields
DataDirs == { <<>>, <<ScanPdf>>, <<PolicyPdf>>, <<ScanPdf, PolicyPdf>> }

\* a collection left in ./vector_store by an earlier writer, its metadata without
\* the keys ingestion sets
LegacyStore == << [id |-> 1, text |-> <<"L">>, meta |-> [imported |-> "yes"]] >>

\* what PersistentClient finds on disk when the first process starts
StoresOnDisk == { <<>>, LegacyStore }

\* llm.invoke(prompt): a completion, or an exception
LLMOutcomes ==
    { [ok |-> FALSE, content |-> <<>>],
      [ok |-> TRUE, content |-> <<" ","3","0"," ","d","a","y","s",".","\n">>] }

NoResults == [documents |-> <<>>, metadatas |-> <<>>, distances |-> <<>>]

\* collection.query(query_embeddings, n_results=top_k, include=[...]): the
\* min(top_k, count) nearest entries as rank-aligned arrays, distances ascending
Retrievals(idx, top_k) ==
    LET n == Min(top_k, Len(idx))
        picks == {p \in [1..n -> 1..Len(idx)] :
                    \A i, j \in 1..n : i # j => p[i] # p[j]}
        dists == {d \in [1..n -> Distances] :
                    \A i, j \in 1..n : i <= j => d[i] <= d[j]}
    IN  { [documents |-> [i \in 1..n |-> idx[p[i]].text],
           metadatas |-> [i \in 1..n |-> idx[p[i]].meta],
           distances |-> d] : p \in picks, d \in dists }

\* the collaborators' outcomes during one query
Envs(idx, top_k) ==
    { [embed_ok |-> FALSE, index_ok |-> FALSE, results |-> NoResults, llm |-> l] :
        l \in {[ok |-> FALSE, content |-> <<>>]} }
    \cup
    { [embed_ok |-> TRUE, index_ok |-> FALSE, results |-> NoResults, llm |-> l] :
        l \in {[ok |-> FALSE, content |-> <<>>]} }
    \cup
    { [embed_ok |-> TRUE, index_ok |-> TRUE, results |-> r, llm |-> l] :
        r \in Retrievals(idx, top_k), l \in LLMOutcomes }

----------------------------------------------------------------------------
\* rag_backend.py MasterHRPipeline.

\* dict.get(key, default)
get(meta, key, default) == IF key \in DOMAIN meta THEN meta[key] ELSE default

\* the page looked up under the source key
source_entry_wrong_key(meta) ==
    [source |-> get(meta, "source", "Unknown"), page |-> get(meta, "source", "N/A")]

source_entry(meta) ==
    [source |-> get(meta, "source", "Unknown"), page |-> get(meta, "page", "N/A")]

\* the filter with `<=` for `<`
valid_indices_inclusive(distances) ==
    LET Near(i) == distances[i] <= THRESHOLD
    IN  SelectSeq([i \in 1..Len(distances) |-> i], Near)

\* [i for i, dist in enumerate(results["distances"][0]) if dist < 1.5]
valid_indices(distances) ==
    LET Near(i) == distances[i] < THRESHOLD
    IN  SelectSeq([i \in 1..Len(distances) |-> i], Near)

context_prompt(context, question) ==
    [kind |-> "context", context |-> context, question |-> question]

refusal_prompt(question) ==
    [kind |-> "refusal", context |-> <<>>, question |-> question]

\* the keyword test as whole-text equality instead of substring
is_hr_related_exact(q) == q \in HR_KEYWORDS

\* any(keyword in q for keyword in HR_KEYWORDS)
is_hr_related(q) == \E keyword \in HR_KEYWORDS : Contains(q, keyword)

\* the LLM call with no handler around it: a failure propagates
uncaught(llm) ==
    [raised |-> ~llm.ok, text |-> IF llm.ok THEN Strip(llm.content) ELSE <<>>]

\* llm.invoke(prompt).content.strip() inside `try`, with the `except` branch's
\* substitute: the handler catches, so nothing is raised past it
caught(llm, substitute) ==
    [raised |-> FALSE, text |-> IF llm.ok THEN Strip(llm.content) ELSE substitute]

matched_reply_unhandled(llm) == uncaught(llm)

\* query's try/except Exception around the LLM call
matched_reply(llm) == caught(llm, UNAVAILABLE)

refusal_reply_unhandled(llm) == uncaught(llm)

\* _handle_no_match's try/except around the LLM call
refusal_reply(llm) == caught(llm, REFUSAL)

record(question, answer, sources) ==
    [question |-> question, answer |-> answer, sources |-> sources]

\* history assigned the new record instead of appended to
remember_overwrites(h, question, answer, sources) == <<record(question, answer, sources)>>

\* self.history.append({...})
remember(h, question, answer, sources) == Append(h, record(question, answer, sources))

\* an exception leaving query: nothing is returned, nothing appended
raised(h, where, llm_failed) ==
    [raised |-> TRUE, path |-> where, answer |-> <<>>, sources |-> <<>>,
     prompts |-> <<>>, llm_failed |-> llm_failed, history |-> h]

handle_no_match(h, question, llm) ==
    LET q == Lower(question)
    IN  IF is_hr_related(q)
        THEN [raised |-> FALSE, path |-> "fallback", answer |-> ESCALATION,
              sources |-> <<>>, prompts |-> <<>>, llm_failed |-> FALSE,
              history |-> remember(h, question, ESCALATION, <<>>)]
        ELSE LET reply == refusal_reply(llm)
             IN  IF reply.raised THEN raised(h, "llm raised", TRUE)
                 ELSE [raised |-> FALSE, path |-> "fallback", answer |-> reply.text,
                       sources |-> <<>>, prompts |-> <<refusal_prompt(question)>>,
                       llm_failed |-> ~llm.ok,
                       history |-> remember(h, question, reply.text, <<>>)]

query(h, question, top_k, env) ==
    IF ~env.embed_ok THEN raised(h, "embedder raised", FALSE)
    ELSE IF ~env.index_ok THEN raised(h, "index raised", FALSE)
    ELSE
      LET results == env.results
          valid == valid_indices(results.distances)
      IN  IF valid = <<>> THEN handle_no_match(h, question, env.llm)
          ELSE
            LET context == Join([k \in 1..Len(valid) |-> results.documents[valid[k]]],
                                <<"\n", "\n">>)
                sources == [k \in 1..Len(valid) |-> source_entry(results.metadatas[valid[k]])]
                llm_response == matched_reply(env.llm)
            IN  IF llm_response.raised THEN raised(h, "llm raised", TRUE)
                ELSE [raised |-> FALSE, path |-> "matched", answer |-> llm_response.text,
                      sources |-> sources,
                      prompts |-> <<context_prompt(context, question)>>,
                      llm_failed |-> ~env.llm.ok,
                      history |-> remember(h, question, llm_response.text, sources)]

\* ingestion with the emptiness test dropped
should_ingest_always(count) == TRUE

\* if self.collection.count() == 0
should_ingest(count) == count = 0

\* doc.metadata["source"] = pdf.name, for every page the loader returned
load(pdf) ==
    [k \in 1..Len(pdf.docs) |->
        [metadata |-> [pdf.docs[k].metadata EXCEPT !.source = pdf.name],
         chunks |-> pdf.docs[k].chunks]]

\* documents.extend(loaded_docs) over the files that load
RECURSIVE load_all(_)
load_all(pdf_files) ==
    IF pdf_files = <<>> THEN <<>>
    ELSE (IF Head(pdf_files).ok THEN load(Head(pdf_files)) ELSE <<>>)
            \o load_all(Tail(pdf_files))

\* splitter.split_documents(documents): every chunk carries its page's metadata
RECURSIVE split_documents(_)
split_documents(documents) ==
    IF documents = <<>> THEN <<>>
    ELSE [k \in 1..Len(Head(documents).chunks) |->
             [text |-> Head(documents).chunks[k], meta |-> Head(documents).metadata]]
         \o split_documents(Tail(documents))

\* collection.add(documents, embeddings, metadatas, ids) with fresh ids
add(idx, chunks) ==
    idx \o [k \in 1..Len(chunks) |->
              [id |-> Len(idx) + k, text |-> chunks[k].text, meta |-> chunks[k].meta]]

\* ingest_data: the collection afterwards and whether an exception left it;
\* embed_ok is the Embedder's outcome, add_ok that of collection.add
ingest_data(idx, pdf_files, embed_ok, add_ok) ==
    IF pdf_files = <<>> THEN [index |-> idx, raised |-> FALSE]
    ELSE LET chunks == split_documents(load_all(pdf_files))
         IN  IF ~embed_ok \/ ~add_ok THEN [index |-> idx, raised |-> TRUE]
             ELSE [index |-> add(idx, chunks), raised |-> FALSE]

\* __init__ from `if self.collection.count() == 0` on
construct(idx, pdf_files, embed_ok, add_ok) ==
    IF should_ingest(Len(idx))
    THEN ingest_data(idx, pdf_files, embed_ok, add_ok) @@ [ingested |-> TRUE]
    ELSE [index |-> idx, raised |-> FALSE, ingested |-> FALSE]

\* the result shape of a generate_answer call that never reached query
unqueried(h) ==
    [raised |-> FALSE, path |-> "none", answer |-> <<>>, sources |-> <<>>,
     prompts |-> <<>>, llm_failed |-> FALSE, history |-> h]

\* generate_answer(user_text): the branch taken, what query did (if called) and
\* the string returned: response.get("raw_answer") or response.get("answer")
generate_answer(h, user_text, hour, env) ==
    LET clean_text == clean(user_text)
        branch == intent(clean_text)
    IN  IF branch = "greeting"
        THEN [branch |-> branch, response |-> unqueried(h),
              answer |-> greeting_reply(hour, user_name(clean_text))]
        ELSE IF branch = "closing"
        THEN [branch |-> branch, response |-> unqueried(h), answer |-> WELCOME]
        ELSE IF branch = "short"
        THEN [branch |-> branch, response |-> unqueried(h), answer |-> ELABORATE]
        ELSE LET response == query(h, user_text, DEFAULT_TOP_K, env)
             IN  [branch |-> branch, response |-> response, answer |-> response.answer]

----------------------------------------------------------------------------
\* State machine.

\* questions put to query directly
Questions == { <<"P","a","y","?">>, <<"s","k","y","?">> }

\* texts put to generate_answer
ChatTexts == { <<"P","a","y","?">>, <<"H","i">>, <<"o","k">>, <<"?">> }

\* characters of the texts enumerated for the intent classifier
Alphabet == {"h", "i", "o", "k", "H", " "}

Texts == UNION {[1..n -> Alphabet] : n \in 0..MaxLen}

\* datetime.now().hour: the hours on either side of each comparison
Hours == {0, 11, 12, 16, 17, 23}

\* inbound WhatsApp messages: a redelivery repeats id, sender and body
Messages ==
    { [id |-> "wamid.1", from |-> "2340001", text |-> <<"H","i">>],
      [id |-> "wamid.2", from |-> "2340002", text |-> <<"P","a","y","?">>] }

MessageIds == {m.id : m \in Messages}

\* bodies POSTed to /webhook
Payloads ==
    { [kind |-> "statuses"], [kind |-> "no messages"], [kind |-> "malformed"] }
    \cup { [kind |-> "message", message |-> m] : m \in Messages }

Idle == [pc |-> "idle", id |-> "", from |-> "", text |-> <<>>, answer |-> <<>>, status |-> ""]

NoCall ==
    [op |-> "boot", question |-> <<>>, top_k |-> 0, hour |-> 0, branch |-> "none",
     queried |-> FALSE, results |-> NoResults, raised |-> FALSE, path |-> "none",
     answer |-> <<>>, sources |-> <<>>, prompts |-> <<>>, llm_failed |-> FALSE,
     ingested |-> FALSE, count_before |-> 0, before |-> <<>>]

\* the record of one query call
query_call(op, question, top_k, env, r, before) ==
    [NoCall EXCEPT !.op = op, !.question = question, !.top_k = top_k,
                   !.branch = "query",
                   !.queried = env.embed_ok /\ env.index_ok,
                   !.results = IF env.embed_ok /\ env.index_ok THEN env.results ELSE NoResults,
                   !.raised = r.raised, !.path = r.path, !.answer = r.answer,
                   !.sources = r.sources, !.prompts = r.prompts,
                   !.llm_failed = r.llm_failed, !.before = before]

\* the record of one generate_answer call
answer_call(user_text, hour, env, g, before) ==
    IF g.branch = "query"
    THEN query_call("generate_answer", user_text, DEFAULT_TOP_K, env, g.response, before)
    ELSE [NoCall EXCEPT !.op = "generate_answer", !.question = user_text,
                        !.hour = hour, !.branch = g.branch, !.answer = g.answer,
                        !.before = before]

\* the clock matters to the greeting reply alone, and the collaborators are
\* consulted by query alone: elsewhere one value stands for all
hours_for(user_text) ==
    IF intent(clean(user_text)) = "greeting" THEN Hours ELSE {0}

envs_for(idx, user_text) ==
    IF intent(clean(user_text)) = "query" THEN Envs(idx, DEFAULT_TOP_K)
    ELSE {[embed_ok |-> TRUE, index_ok |-> TRUE, results |-> NoResults,
           llm |-> [ok |-> FALSE, content |-> <<>>]]}

Quiet == UNCHANGED <<processed_messages, handlers, generated, sent>>

TypeInit ==
    /\ history = <<>>
    /\ call = NoCall
    /\ processed_messages = {}
    /\ handlers = [h \in 1..MaxHandlers |-> Idle]
    /\ generated = [id \in MessageIds |-> 0]
    /\ sent = [id \in MessageIds |-> 0]

\* before the first process starts: only the vector store on disk exists
Init ==
    /\ up = FALSE
    /\ index \in StoresOnDisk
    /\ TypeInit

\* `hr_bot = MasterHRPipeline(data_dir="./data")` at import of rag_backend
Start ==
    /\ ~up
    /\ \E pdf_files \in DataDirs, embed_ok \in BOOLEAN, add_ok \in BOOLEAN :
         LET c == construct(index, pdf_files, embed_ok, add_ok)
         IN  /\ index' = c.index
             /\ up' = ~c.raised
             /\ history' = <<>>
             /\ call' = [NoCall EXCEPT !.op = "start", !.raised = c.raised,
                                       !.ingested = c.ingested,
                                       !.count_before = Len(index)]
    /\ Quiet

\* the process ends; hr_bot.history goes with it, ./vector_store stays
Stop ==
    /\ up
    /\ up' = FALSE
    /\ history' = <<>>
    /\ call' = [NoCall EXCEPT !.op = "stop"]
    /\ UNCHANGED index
    /\ Quiet

\* hr_bot.query(question, top_k)
Query ==
    /\ up
    /\ Len(history) < MaxHistory
    /\ \E question \in Questions, top_k \in TopKs :
         \E env \in Envs(index, top_k) :
           LET r == query(history, question, top_k, env)
           IN  /\ history' = r.history
               /\ call' = query_call("query", question, top_k, env, r, history)
    /\ UNCHANGED <<up, index>>
    /\ Quiet

\* POST /chat with a non-empty message: generate_answer(user_text)
Chat ==
    /\ up
    /\ Len(history) < MaxHistory
    /\ \E user_text \in ChatTexts :
         \E hour \in hours_for(user_text), env \in envs_for(index, user_text) :
           LET g == generate_answer(history, user_text, hour, env)
           IN  /\ history' = g.response.history
               /\ call' = answer_call(user_text, hour, env, g, history)
    /\ UNCHANGED <<up, index>>
    /\ Quiet

Next == Start \/ Stop \/ Query \/ Chat

Spec == Init /\ [][Next]_vars

----------------------------------------------------------------------------
\* The intent classifier over every text up to MaxLen: one generate_answer call
\* in a process that ingested policy.pdf.

IngestedIndex == construct(<<>>, <<PolicyPdf>>, TRUE, TRUE).index

IntentInit ==
    /\ up = TRUE
    /\ index = IngestedIndex
    /\ TypeInit

Classify ==
    /\ call.op = "boot"
    /\ \E user_text \in Texts :
         \E hour \in hours_for(user_text), env \in envs_for(index, user_text) :
           LET g == generate_answer(history, user_text, hour, env)
           IN  /\ history' = g.response.history
               /\ call' = answer_call(user_text, hour, env, g, history)
    /\ UNCHANGED <<up, index>>
    /\ Quiet

IntentNext == Classify

SpecIntent == IntentInit /\ [][IntentNext]_vars

----------------------------------------------------------------------------
\* POST /webhook (app.py receive_message) served by concurrent request threads:
\* every step below is one that another thread can run between.

\* a process that started on an empty data directory
WebhookInit ==
    /\ up = TRUE
    /\ index = <<>>
    /\ TypeInit

finish(h, status) ==
    handlers' = [handlers EXCEPT ![h] = [@ EXCEPT !.pc = "done", !.status = status]]

\* request.get_json() down to user_text = message["text"]["body"]
Receive(h) ==
    /\ handlers[h].pc = "idle"
    /\ \E payload \in Payloads :
         IF payload.kind \in {"statuses", "no messages"} THEN finish(h, "ignored")
         ELSE IF payload.kind = "malformed" THEN finish(h, "success")
         ELSE handlers' = [handlers EXCEPT ![h] =
                             [@ EXCEPT !.pc = "check", !.id = payload.message.id,
                                       !.from = payload.message.from,
                                       !.text = payload.message.text]]
    /\ UNCHANGED <<up, index, history, call, processed_messages, generated, sent>>

\* if message_id in processed_messages: return jsonify(status="duplicate")
CheckDuplicate(h) ==
    /\ handlers[h].pc = "check"
    /\ IF handlers[h].id \in processed_messages
       THEN finish(h, "duplicate")
       ELSE handlers' = [handlers EXCEPT ![h] = [@ EXCEPT !.pc = "add"]]
    /\ UNCHANGED <<up, index, history, call, processed_messages, generated, sent>>

\* processed_messages.add(message_id)
MarkProcessed(h) ==
    /\ handlers[h].pc = "add"
    /\ processed_messages' = processed_messages \cup {handlers[h].id}
    /\ handlers' = [handlers EXCEPT ![h] = [@ EXCEPT !.pc = "generate"]]
    /\ UNCHANGED <<up, index, history, call, generated, sent>>

\* answer = generate_answer(user_text); an exception goes to the handler's except
Generate(h) ==
    /\ handlers[h].pc = "generate"
    /\ LET user_text == handlers[h].text
       IN  \E hour \in hours_for(user_text), env \in envs_for(index, user_text) :
             LET g == generate_answer(history, user_text, hour, env)
             IN  /\ history' = g.response.history
                 /\ call' = answer_call(user_text, hour, env, g, history)
                 /\ IF g.response.raised
                    THEN finish(h, "success")
                    ELSE handlers' = [handlers EXCEPT ![h] =
                                        [@ EXCEPT !.pc = "send", !.answer = g.answer]]
    /\ generated' = [generated EXCEPT ![handlers[h].id] = @ + 1]
    /\ UNCHANGED <<up, index, processed_messages, sent>>

\* send_whatsapp_message(from_number, answer), usage tracking, status="success"
Send(h) ==
    /\ handlers[h].pc = "send"
    /\ sent' = [sent EXCEPT ![handlers[h].id] = @ + 1]
    /\ finish(h, "success")
    /\ UNCHANGED <<up, index, history, call, processed_messages, generated>>

WebhookNext ==
    \E h \in 1..MaxHandlers :
        Receive(h) \/ CheckDuplicate(h) \/ MarkProcessed(h) \/ Generate(h) \/ Send(h)

SpecWebhook == WebhookInit /\ [][WebhookNext]_vars

----------------------------------------------------------------------------
\* Properties.

\* the last operation was a call of query, direct or through generate_answer
IsQueryCall == call.op \in {"query", "generate_answer"} /\ call.branch = "query"

\* every returned distance is >= 1.5 (vacuously for an empty result list)
AllFar(distances) == \A i \in 1..Len(distances) : distances[i] >= THRESHOLD

\* ranks of the returned entries with distance < 1.5, in rank order
Survivors(distances) ==
    LET near == {i \in 1..Len(distances) : distances[i] < THRESHOLD}
    IN  [k \in 1..Cardinality(near) |->
            CHOOSE i \in near : Cardinality({j \in near : j < i}) = k - 1]

\* the lower-cased question contains an ontology keyword as a substring
KeywordIn(question) == \E kw \in HR_KEYWORDS : Contains(Lower(question), kw)

\* C1: whenever the Vector Index returns only distances >= 1.5 (or nothing), query
\* returns the Fallback Policy's result and sends no context prompt to the Language
\* Model; a context prompt is sent only when some returned distance is < 1.5.
C1_FallbackWhenNothingNear ==
    (IsQueryCall /\ call.queried) =>
        /\ AllFar(call.results.distances) =>
              /\ call.path = "fallback"
              /\ \A k \in 1..Len(call.prompts) : call.prompts[k].kind # "context"
              /\ \E l \in LLMOutcomes :
                    LET f == handle_no_match(call.before, call.question, l)
                    IN  /\ call.answer = f.answer
                        /\ call.sources = f.sources
                        /\ history = f.history
        /\ (\E k \in 1..Len(call.prompts) : call.prompts[k].kind = "context")
              => ~AllFar(call.results.distances)

\* two entries come back, the nearest exactly at 1.5, and the fallback answers
C1_Witness ==
    /\ IsQueryCall /\ call.queried
    /\ Len(call.results.distances) = 2
    /\ call.results.distances[1] = THRESHOLD
    /\ call.path = "fallback"
    /\ call.prompts = <<>>

\* C2: a fallback question whose lower-cased text contains an ontology keyword is
\* answered with the fixed escalation sentence, empty sources and no Language Model
\* call; the fallback calls the Language Model, once, only when no keyword matches.
C2_KeywordEscalates ==
    (IsQueryCall /\ call.path = "fallback") =>
        /\ KeywordIn(call.question) =>
              /\ call.answer = ESCALATION
              /\ call.sources = <<>>
              /\ call.prompts = <<>>
        /\ call.prompts # <<>> =>
              /\ ~KeywordIn(call.question)
              /\ Len(call.prompts) = 1
              /\ call.prompts[1].kind = "refusal"

\* "Pay?" matches "pay" only after lower-casing, and is escalated with no LLM call
C2_Witness ==
    /\ IsQueryCall /\ call.path = "fallback"
    /\ KeywordIn(call.question)
    /\ ~(\E kw \in HR_KEYWORDS : Contains(call.question, kw))
    /\ call.answer = ESCALATION
    /\ call.prompts = <<>>

\* C3: a failed Language Model call is not propagated: on the matched path query
\* returns "HR system unavailable. Please try again." with the surviving chunks'
\* sources, on the fallback path "I can only assist with HR-related questions."
\* with no sources, and the record with that answer is appended to history.
C3_LLMFailureSubstituted ==
    (IsQueryCall /\ call.llm_failed) =>
        /\ ~call.raised
        /\ call.path \in {"matched", "fallback"}
        /\ call.path = "matched" =>
              /\ call.answer = UNAVAILABLE
              /\ Len(call.sources) = Len(Survivors(call.results.distances))
              /\ \A k \in 1..Len(call.sources) :
                    LET meta == call.results.metadatas[Survivors(call.results.distances)[k]]
                    IN  /\ "source" \in DOMAIN meta => call.sources[k].source = meta.source
                        /\ "page" \in DOMAIN meta => call.sources[k].page = meta.page
        /\ call.path = "fallback" =>
              /\ call.answer = REFUSAL
              /\ call.sources = <<>>
        /\ history = Append(call.before,
                            [question |-> call.question, answer |-> call.answer,
                             sources |-> call.sources])

\* the LLM failed on a fallback call and then on a matched call of one process
C3_Witness ==
    /\ Len(history) = 2
    /\ history[1].answer = REFUSAL /\ history[1].sources = <<>>
    /\ history[2].answer = UNAVAILABLE /\ Len(history[2].sources) = 2
    /\ IsQueryCall /\ call.llm_failed /\ call.path = "matched"

\* C4 as claimed: query returns a result whatever collaborator fails.
C4_QueryNeverRaises == IsQueryCall => ~call.raised

\* C4 as amended: query raises exactly when the Embedder or the Vector Index
\* fails, leaving history as it was; whenever both succeed it returns a result with
\* an answer string, whether or not the Language Model call fails.
C4_RaisesOnlyOnRetrievalFailure ==
    IsQueryCall =>
        /\ call.raised <=> ~call.queried
        /\ call.raised => history = call.before
        /\ call.queried =>
              /\ call.path \in {"matched", "fallback"}
              /\ call.answer \in Seq(STRING)
              /\ Len(history) = Len(call.before) + 1
              /\ history[Len(history)].answer = call.answer

\* the Embedder and the index succeeded, the LLM call failed, a result came back
C4_Witness ==
    /\ IsQueryCall /\ call.queried /\ call.llm_failed
    /\ ~call.raised
    /\ call.answer \in {UNAVAILABLE, REFUSAL}

\* C5: within a process, every query call that returns (matched or fallback)
\* appends exactly its own record (question, returned answer, returned sources) to
\* history, keeping the earlier records; any other step, the intent classifier's
\* greeting, closing and too-short answers included, leaves history as it is.
C5_Step ==
    (up /\ up') =>
        IF call' # call /\ call'.op \in {"query", "generate_answer"}
              /\ call'.branch = "query" /\ ~call'.raised
        THEN history' = Append(history,
                               [question |-> call'.question, answer |-> call'.answer,
                                sources |-> call'.sources])
        ELSE history' = history

C5_AppendOnly == [][C5_Step]_vars

\* a fallback record followed by a matched record
C5_Witness ==
    /\ Len(history) = 2
    /\ history[1].sources = <<>>
    /\ history[2].sources # <<>>
    /\ history[1].question # history[2].question

\* C6 as claimed: a text of trimmed length <= 2 gets the "please elaborate" message
\* whatever its content.
C6_ShortAlwaysElaborate ==
    (call.op = "generate_answer" /\ Len(Strip(Lower(call.question))) <= 2)
        => call.answer = ELABORATE

\* C6 as amended: a text of trimmed length <= 2 that neither starts with a greeting
\* token nor contains a closing token gets the "please elaborate" message.
C6_ShortElaborateUnlessToken ==
    (/\ call.op = "generate_answer"
     /\ Len(Strip(Lower(call.question))) <= 2
     /\ ~is_greeting(Strip(Lower(call.question)))
     /\ ~is_closing(Strip(Lower(call.question))))
        => /\ call.answer = ELABORATE
           /\ call.branch = "short"
           /\ call.path = "none"

\* a text longer than two characters whose trimmed form has exactly two
C6_Witness ==
    /\ call.op = "generate_answer"
    /\ Len(call.question) > 2
    /\ Len(Strip(Lower(call.question))) = 2
    /\ call.answer = ELABORATE

\* C7: generate_answer takes exactly one branch, the first that matches of
\* greeting prefix, closing token anywhere, length <= 2, Query Engine; the Query
\* Engine (embedding, index query, LLM call, history append) runs in the last only.
C7_FirstMatchWins ==
    call.op = "generate_answer" =>
        LET c == Strip(Lower(call.question))
            g == \E k \in 1..Len(greetings) : StartsWith(c, greetings[k])
            b == \E k \in 1..Len(closing_words) : Contains(c, closing_words[k])
            s == Len(c) <= 2
            engine == \/ call.path # "none"
                      \/ call.queried
                      \/ call.prompts # <<>>
                      \/ history # call.before
        IN  /\ call.branch \in {"greeting", "closing", "short", "query"}
            /\ g => /\ call.branch = "greeting"
                    /\ StartsWith(call.answer, time_greeting(call.hour) \o GREET_WAVE)
            /\ (~g /\ b) => (call.branch = "closing" /\ call.answer = WELCOME)
            /\ (~g /\ ~b /\ s) => (call.branch = "short" /\ call.answer = ELABORATE)
            /\ (~g /\ ~b /\ ~s) => (call.branch = "query" /\ call.path # "none")
            /\ engine => (~g /\ ~b /\ ~s)

\* a text that starts with a greeting token and contains a closing token
C7_Witness ==
    /\ call.op = "generate_answer"
    /\ is_greeting(clean(call.question))
    /\ is_closing(clean(call.question))
    /\ call.branch = "greeting"
    /\ history = call.before

\* C8: a process start on a non-empty Vector Index leaves the index as it is, and
\* ingestion runs only in a start that finds the index empty; no other step
\* changes a non-empty index.
C8_Step ==
    /\ index # <<>> => index' = index
    /\ (~up /\ call'.op = "start" /\ call'.ingested) => index = <<>>

C8_IngestOnlyWhenEmpty == [][C8_Step]_vars

\* a later process start found the ingested index and did not ingest again
C8_Witness ==
    /\ up
    /\ call.op = "start" /\ ~call.ingested
    /\ call.count_before = 2
    /\ index = IngestedIndex

\* C9: sources of a matched result holds one {source, page} entry per surviving
\* chunk, in rank order, "Unknown"/"N/A" standing for an absent field; a chunk that
\* ingestion made from a page of a PDF comes back with that file's name and that
\* page.
C9_ProvenanceRoundTrip ==
    (IsQueryCall /\ call.path = "matched") =>
        LET surv == Survivors(call.results.distances)
        IN  /\ Len(call.sources) = Len(surv)
            /\ \A k \in 1..Len(surv) :
                  LET meta == call.results.metadatas[surv[k]]
                      text == call.results.documents[surv[k]]
                  IN  /\ call.sources[k].source =
                            (IF "source" \in DOMAIN meta THEN meta.source ELSE "Unknown")
                      /\ call.sources[k].page =
                            (IF "page" \in DOMAIN meta THEN meta.page ELSE "N/A")
                      /\ \A dir \in DataDirs : \A f \in 1..Len(dir) :
                            \A d \in 1..Len(dir[f].docs) :
                               (\E c \in 1..Len(dir[f].docs[d].chunks) :
                                    dir[f].docs[d].chunks[c] = text)
                               => call.sources[k] =
                                     [source |-> dir[f].name,
                                      page |-> dir[f].docs[d].metadata.page]

\* both ingested chunks survive, page 1 ranked before page 0
C9_Witness ==
    /\ IsQueryCall /\ call.path = "matched"
    /\ call.sources = << [source |-> "policy.pdf", page |-> "1"],
                         [source |-> "policy.pdf", page |-> "0"] >>

\* C10: generate_answer and send_whatsapp_message run at most once per message id,
\* under every interleaving of the webhook's request threads.
C10_AtMostOncePerMessage ==
    \A id \in MessageIds : generated[id] <= 1 /\ sent[id] <= 1

====
